---------------------------- MODULE Spec2Model ----------------------------
(***************************************************************************)
(* Model of the time-range normalization of the subtitle-driven clipper    *)
(* (src/4o-1.py): VideoEditorApp.process_with_llm from the arrival of the  *)
(* language model's reply to the hand-over of the clip list to             *)
(* clip_videos, with the helper hms_to_sec.                                *)
(*                                                                         *)
(* Text is a sequence of one-character strings.  A reply is a sequence of  *)
(* whitespace-separated tokens.  Times are exact integers in milliseconds  *)
(* (the code's float seconds times 1000), so 0.5 s is 500.                 *)
(***************************************************************************)
EXTENDS Integers, Sequences, FiniteSets, TLC

VARIABLES
    app_config,         \* the global configuration dictionary (buffer_time, min_duration)
    ai_reply,           \* the reply text returned by call_llm
    matches,            \* re.findall result, then sorted by raw start
    buffer_time,        \* local of process_with_llm, read from app_config
    buffered_ranges,    \* [start, end] pairs after buffering and sorting
    scan_idx,           \* position of the merge loop in buffered_ranges
    merged_ranges,      \* the growing list of the merge loop
    min_duration,       \* local of process_with_llm, read from app_config
    final_clip_ranges,  \* merged ranges that pass the minimum duration
    warning,            \* the warning box scheduled on the UI thread, if any
    clip_ranges,        \* the argument clip_videos was called with
    pc,                 \* position of the workflow thread in process_with_llm
    hms_pair,           \* a (start_str, end_str) pair handed to hms_to_sec
    hms_buffer,         \* the buffer_time the pair is buffered with
    hms_secs,           \* what hms_to_sec returned for the two strings
    hms_ranges,         \* the list the loop body of lines 586-590 appends to
    hms_pc,             \* position in that loop body
    replaced,           \* the configuration that the first save between the
                        \* run's two reads of app_config overwrote, if any
    list_exists,        \* whether list.txt exists in the output directory
    list_txt,           \* the lines of list.txt: clip indices
    temp_clips,         \* self.temp_clips: the clip indices to clean up
    successful_clips_count,
    clip_i,             \* position of the clip loop in clip_ranges
    extractions,        \* the ffmpeg clip commands issued so far
    files,              \* the clip files in the output directory
    concat_state,       \* the ffmpeg concat process: none, running, ok, ...
    cleanups,           \* how many times cleanup_temp_clips has run
    subs_started,       \* whether generate_final_subtitles has been called
    tk_queue,           \* callbacks scheduled with root.after, not yet run
    workers,            \* position of each thread started with threading.Thread
    editor_open,        \* whether a SubtitleEditorWindow is waiting for the user
    clips_left,         \* iterations the clip loop of the worker still has to do
    clips_made,         \* whether an iteration of that loop has succeeded
    ran,                \* which dialog and which long-running call ran on which thread
    video_path,         \* self.video_path, shared by every workflow of the window
    workflows,          \* each started workflow: its position, its locals, what it
                        \* selected and what it has put in the shared lists itself
    clip_owner          \* which workflow wrote each clip file of the output directory

normVars == <<app_config, ai_reply, matches, buffer_time, buffered_ranges, scan_idx,
              merged_ranges, min_duration, final_clip_ranges, warning, clip_ranges,
              pc>>

hmsVars == <<hms_pair, hms_buffer, hms_secs, hms_ranges, hms_pc>>

settingsVars == <<replaced>>

clipVars == <<list_exists, list_txt, temp_clips, successful_clips_count, clip_i,
              extractions, files, concat_state, cleanups, subs_started>>

threadVars == <<tk_queue, workers, editor_open, clips_left, clips_made, ran>>

isoVars == <<video_path, workflows, clip_owner>>

vars == <<normVars, hmsVars, settingsVars, clipVars, threadVars, isoVars>>

\* What the steps of process_with_llm leave alone, and what the steps around
\* hms_to_sec leave alone.
notNorm == <<hmsVars, settingsVars, clipVars, threadVars, isoVars>>

notHms == <<normVars, settingsVars, clipVars, threadVars, isoVars>>

(***************************************************************************)
(* Bound of the checked instance.                                          *)
(***************************************************************************)
MaxLines == 3       \* lines of the reply

(***************************************************************************)
(* Generic helpers.                                                        *)
(***************************************************************************)
Max(a, b) == IF a >= b THEN a ELSE b

Range(s) == {s[i] : i \in 1..Len(s)}

Front(s) == SubSeq(s, 1, Len(s) - 1)

Last(s) == s[Len(s)]

(***************************************************************************)
(* Text: digits, float() of a run of digits, str.split.                    *)
(***************************************************************************)
Digits == <<"0", "1", "2", "3", "4", "5", "6", "7", "8", "9">>

IsDigit(c) == c \in {"0", "1", "2", "3", "4", "5", "6", "7", "8", "9"}

DigitValue(c) == (CHOOSE i \in 1..10 : Digits[i] = c) - 1

\* float(x) raises ValueError unless x is a number.  The alphabet of the
\* model is the digits, ':', '.', ',' and 'x'; a field without a '.' is a
\* number exactly if it is a run of digits.
IsNumber(txt) == txt # <<>> /\ \A i \in 1..Len(txt) : IsDigit(txt[i])

NumberValueOf[txt \in Seq(STRING)] ==
    IF txt = <<>> THEN 0
    ELSE NumberValueOf[Front(txt)] * 10 + DigitValue(Last(txt))

NumberValue(txt) == NumberValueOf[txt]

\* Index of the first sep in txt at or after position i, 0 if there is none.
FindChar(txt, sep, i) ==
    IF \E k \in i..Len(txt) : txt[k] = sep
    THEN CHOOSE k \in i..Len(txt) :
             txt[k] = sep /\ \A j \in i..(k - 1) : txt[j] # sep
    ELSE 0

SplitAt[txt \in Seq(STRING), sep \in STRING] ==
    IF FindChar(txt, sep, 1) = 0 THEN <<txt>>
    ELSE <<SubSeq(txt, 1, FindChar(txt, sep, 1) - 1)>>
         \o SplitAt[SubSeq(txt, FindChar(txt, sep, 1) + 1, Len(txt)), sep]

Split(txt, sep) == SplitAt[txt, sep]

(***************************************************************************)
(* hms_to_sec: HH:MM:SS.mmm text to a time; 0 on a ValueError.             *)
(***************************************************************************)
\* float(x) of a field that may hold a '.', as the hours and minutes fields
\* may: digits with at most one '.', and a digit on one side of it at least.
IsFloat(txt) ==
    IF FindChar(txt, ".", 1) = 0 THEN IsNumber(txt)
    ELSE LET whole == SubSeq(txt, 1, FindChar(txt, ".", 1) - 1)
             frac  == SubSeq(txt, FindChar(txt, ".", 1) + 1, Len(txt))
         IN  /\ whole # <<>> \/ frac # <<>>
             /\ whole = <<>> \/ IsNumber(whole)
             /\ frac = <<>> \/ IsNumber(frac)

\* float(txt) * unit, unit in milliseconds, to the millisecond below.
FloatValue(txt, unit) ==
    IF FindChar(txt, ".", 1) = 0 THEN NumberValue(txt) * unit
    ELSE LET whole == SubSeq(txt, 1, FindChar(txt, ".", 1) - 1)
             frac  == SubSeq(txt, FindChar(txt, ".", 1) + 1, Len(txt))
         IN  NumberValue(whole) * unit
             + (NumberValue(frac) * unit) \div (10 ^ Len(frac))

TotalMs_minutes_as_seconds(h, m, s, mmm) == h + m \div 60 + s * 1000 + mmm

\* float(h) * 3600 + float(m) * 60 + float(s) + float(mmm) / 1000.0, in
\* milliseconds; h and m are given in milliseconds already.
TotalMs(h, m, s, mmm) == h + m + s * 1000 + mmm

OnValueError_sentinel(hms) == -1

\* except ValueError: print, return 0.0.
OnValueError(hms) == 0

\* The seconds and milliseconds fields are cut at the '.', so they hold none
\* and float() takes them exactly if they are runs of digits.
hms_to_sec(hms) ==
    LET t  == IF FindChar(hms, ".", 1) = 0 THEN hms \o <<".", "0", "0", "0">> ELSE hms
        f  == Split(t, ":")
        sm == Split(f[3], ".")
    IN  IF Len(f) # 3 THEN OnValueError(hms)
        ELSE IF Len(sm) # 2 THEN OnValueError(hms)
        ELSE IF IsFloat(f[1]) /\ IsFloat(f[2]) /\ IsNumber(sm[1]) /\ IsNumber(sm[2])
             THEN TotalMs(FloatValue(f[1], 3600000), FloatValue(f[2], 60000),
                          NumberValue(sm[1]), NumberValue(sm[2]))
             ELSE OnValueError(hms)

(***************************************************************************)
(* re.findall of the range pattern, on tokens: a stamp token, the          *)
(* separator, a stamp token; matching resumes after a match.               *)
(***************************************************************************)
Dash == <<"-">>

\* \d{2}:\d{2}:\d{2}\.\d{3}
IsStamp(tok) ==
    /\ Len(tok) = 12
    /\ tok[3] = ":" /\ tok[6] = ":" /\ tok[9] = "."
    /\ \A i \in {1, 2, 4, 5, 7, 8, 10, 11, 12} : IsDigit(tok[i])

FindFrom[reply \in Seq(Seq(STRING)), i \in Nat] ==
    IF i + 2 > Len(reply) THEN <<>>
    ELSE IF IsStamp(reply[i]) /\ reply[i + 1] = Dash /\ IsStamp(reply[i + 2])
         THEN <<<<reply[i], reply[i + 2]>>>> \o FindFrom[reply, i + 3]
         ELSE FindFrom[reply, i + 1]

findall(reply) == FindFrom[reply, 1]

(***************************************************************************)
(* sorted(matches, key=lambda x: hms_to_sec(x[0])): stable.                *)
(***************************************************************************)
\* Variant: the matches are sorted by their end.
MatchKey_end(x) == hms_to_sec(x[2])

MatchKey(x) == hms_to_sec(x[1])

Match == Seq(Seq(STRING))

InsertMatch[sorted \in Seq(Match), x \in Match] ==
    IF sorted = <<>> THEN <<x>>
    ELSE IF MatchKey(Last(sorted)) <= MatchKey(x) THEN Append(sorted, x)
    ELSE Append(InsertMatch[Front(sorted), x], Last(sorted))

SortedMatches[ms \in Seq(Match)] ==
    IF ms = <<>> THEN <<>>
    ELSE InsertMatch[SortedMatches[Front(ms)], Last(ms)]

SortMatches(ms) == SortedMatches[ms]

(***************************************************************************)
(* The buffering loop.                                                     *)
(***************************************************************************)
\* Variant: the start is not clamped at 0.
BufferedStart_unclamped(start_str, buf) == hms_to_sec(start_str) - buf

BufferedStart(start_str, buf) == Max(0, hms_to_sec(start_str) - buf)

BufferedEnd_raw(end_str, buf) == hms_to_sec(end_str)

BufferedEnd(end_str, buf) == hms_to_sec(end_str) + buf

\* Variant: a range of zero length is kept.
KeepBuffered_nonstrict(start_sec, end_sec) == end_sec >= start_sec

KeepBuffered(start_sec, end_sec) == end_sec > start_sec

BufferedOf[ms \in Seq(Match), buf \in Int] ==
    IF ms = <<>> THEN <<>>
    ELSE LET start_sec == BufferedStart(ms[1][1], buf)
             end_sec   == BufferedEnd(ms[1][2], buf)
         IN  IF KeepBuffered(start_sec, end_sec)
             THEN <<<<start_sec, end_sec>>>> \o BufferedOf[Tail(ms), buf]
             ELSE BufferedOf[Tail(ms), buf]

BufferRanges(ms, buf) == BufferedOf[ms, buf]

(***************************************************************************)
(* sorted(buffered_ranges, key=lambda x: x[0]): stable.                    *)
(***************************************************************************)
RangeKey(r) == r[1]

TimeRange == Seq(Int)

InsertRange[sorted \in Seq(TimeRange), r \in TimeRange] ==
    IF sorted = <<>> THEN <<r>>
    ELSE IF RangeKey(Last(sorted)) <= RangeKey(r) THEN Append(sorted, r)
    ELSE Append(InsertRange[Front(sorted), r], Last(sorted))

SortedRanges[rs \in Seq(TimeRange)] ==
    IF rs = <<>> THEN <<>>
    ELSE InsertRange[SortedRanges[Front(rs)], Last(rs)]

SortRanges(rs) == SortedRanges[rs]

(***************************************************************************)
(* The merge loop.                                                         *)
(***************************************************************************)
merge_gap == 500

\* `not merged_ranges or ...`: the right operand, which reads
\* merged_ranges[-1], is evaluated only when the list is not empty.
\* Variant: the emptiness test is missing, the last range is always read.
ReadsLast_always(merged) == TRUE

ReadsLast(merged) == merged # <<>>

\* Variant: a range exactly merge_gap after the last one starts a new range.
StartsNew_nonstrict(merged, start) ==
    merged = <<>> \/ start >= Last(merged)[2] + merge_gap

\* Variant: the comparison is the wrong way round.
StartsNew_flipped(merged, start) ==
    merged = <<>> \/ start < Last(merged)[2] + merge_gap

StartsNew(merged, start) ==
    merged = <<>> \/ start > Last(merged)[2] + merge_gap

\* Variant: the end is overwritten instead of extended.
ExtendedEnd_overwrite(last_end, end) == end

ExtendedEnd(last_end, end) == Max(last_end, end)

MergeStepOf[merged \in Seq(TimeRange), r \in TimeRange] ==
    IF StartsNew(merged, r[1])
    THEN Append(merged, r)
    ELSE [merged EXCEPT ![Len(merged)][2] = ExtendedEnd(@, r[2])]

MergeStep(merged, r) == MergeStepOf[merged, r]

MergedOf[rs \in Seq(TimeRange)] ==
    IF rs = <<>> THEN <<>>
    ELSE MergeStep(MergedOf[Front(rs)], Last(rs))

MergeRanges(rs) == MergedOf[rs]

(***************************************************************************)
(* The minimum-duration filter.                                            *)
(***************************************************************************)
\* Variant: a range of exactly the minimum duration is dropped.
LongEnough_strict(r, mind) == r[2] - r[1] > mind

LongEnough(r, mind) == r[2] - r[1] >= mind

FilteredOf[rs \in Seq(TimeRange), mind \in Int] ==
    IF rs = <<>> THEN <<>>
    ELSE IF LongEnough(rs[1], mind)
         THEN <<rs[1]>> \o FilteredOf[Tail(rs), mind]
         ELSE FilteredOf[Tail(rs), mind]

FilterRanges(rs, mind) == FilteredOf[rs, mind]

\* The whole normalization as a function of the reply and the two settings.
Normalize(reply, buf, mind) ==
    FilterRanges(
        MergeRanges(SortRanges(BufferRanges(SortMatches(findall(reply)), buf))),
        mind)

(***************************************************************************)
(* The replies and settings of the checked instance.  A line of a reply    *)
(* is a range in the requested format, 0.5 s or 1 s long, a range of zero  *)
(* length, or a range in SRT notation (a comma before the milliseconds),   *)
(* which the pattern does not match.                                       *)
(***************************************************************************)
TwoDigits(n) == <<Digits[(n \div 10) + 1], Digits[(n % 10) + 1]>>

ThreeDigits(n) == <<Digits[(n \div 100) + 1]>> \o TwoDigits(n % 100)

Stamp(ms) ==
    TwoDigits(ms \div 3600000) \o <<":">> \o TwoDigits((ms \div 60000) % 60)
    \o <<":">> \o TwoDigits((ms \div 1000) % 60) \o <<".">> \o ThreeDigits(ms % 1000)

SrtStamp(ms) == [Stamp(ms) EXCEPT ![9] = ","]

RangeLine(s, e) == <<Stamp(s), Dash, Stamp(e)>>

RawStarts == {200, 2200, 4200}

Lines ==
    {RangeLine(s, s + d) : s \in RawStarts, d \in {500, 1000}}
    \cup {RangeLine(2200, 2200)}
    \cup {<<SrtStamp(200), Dash, SrtStamp(1200)>>}

RECURSIVE Flatten(_)
Flatten(ls) == IF ls = <<>> THEN <<>> ELSE ls[1] \o Flatten(Tail(ls))

Replies == {Flatten(ls) : ls \in UNION {[1..n -> Lines] : n \in 0..MaxLines}}

BufferChoices == {-250, 0, 500}

MinDurationChoices == {-1000, 0, 1000}

(***************************************************************************)
(* The state machine.                                                      *)
(***************************************************************************)
\* No pair is under conversion.
HmsIdle ==
    /\ hms_pair = <<>>
    /\ hms_buffer = 0
    /\ hms_secs = <<>>
    /\ hms_ranges = <<>>
    /\ hms_pc = "idle"

\* No save has overwritten a configuration the run was using.
SettingsIdle == replaced = <<>>

\* clip_videos has not been called.
ClipIdle ==
    /\ list_exists = FALSE
    /\ list_txt = <<>>
    /\ temp_clips = <<>>
    /\ successful_clips_count = 0
    /\ clip_i = 1
    /\ extractions = <<>>
    /\ files = {}
    /\ concat_state = "none"
    /\ cleanups = 0
    /\ subs_started = FALSE

\* The functions the program hands to threading.Thread.
Targets == {"_processing_workflow_thread", "_resume_processing_after_select",
            "embed_subtitles_to_video"}

\* The main loop is waiting for the user: no thread has been started and no
\* callback is scheduled.
ThreadIdle ==
    /\ tk_queue = <<>>
    /\ workers = [t \in Targets |-> "none"]
    /\ editor_open = FALSE
    /\ clips_left = 0
    /\ clips_made = FALSE
    /\ ran = {}

\* The workflows the user starts: the button is pressed at most twice.
Workflows == {"first", "second"}

\* No workflow has been started: no video is selected (line 366) and the
\* output directory holds no clip.
\* A workflow before the button is pressed for it: its position, the video
\* its file dialog returned, the locals of its clip_videos call (number of
\* ranges, loop index, successful_clips_count) and what it has itself
\* appended to self.temp_clips and to list.txt.
NotStarted == [pc |-> "idle", video |-> "None", n |-> 0, i |-> 1, count |-> 0,
               mine |-> <<>>, listed |-> <<>>]

IsoIdle ==
    /\ video_path = "None"
    /\ workflows = [w \in Workflows |-> NotStarted]
    /\ clip_owner = {}

\* process_with_llm as call_llm returns one of the given replies.
StartOf(replies) ==
    /\ app_config \in [buffer_time : BufferChoices, min_duration : MinDurationChoices]
    /\ ai_reply \in replies
    /\ matches = <<>>
    /\ buffer_time = 0
    /\ buffered_ranges = <<>>
    /\ scan_idx = 1
    /\ merged_ranges = <<>>
    /\ min_duration = 0
    /\ final_clip_ranges = <<>>
    /\ warning = "none"
    /\ clip_ranges = <<>>
    /\ pc = "call_llm"
    /\ HmsIdle
    /\ SettingsIdle
    /\ ClipIdle
    /\ ThreadIdle
    /\ IsoIdle

Init == StartOf(Replies)

\* `if not ai_reply: return`: an empty reply ends the workflow with a console
\* message only.
InvalidReply ==
    /\ pc = "call_llm"
    /\ ai_reply = <<>>
    /\ pc' = "stopped"
    /\ UNCHANGED <<app_config, ai_reply, matches, buffer_time, buffered_ranges,
                   scan_idx, merged_ranges, min_duration, final_clip_ranges,
                   warning, clip_ranges>>
    /\ UNCHANGED notNorm

\* No match: the "nothing found" warning, and return.
NothingFound ==
    /\ pc = "call_llm"
    /\ ai_reply # <<>>
    /\ findall(ai_reply) = <<>>
    /\ warning' = "nothing_found"
    /\ pc' = "stopped"
    /\ UNCHANGED <<app_config, ai_reply, matches, buffer_time, buffered_ranges,
                   scan_idx, merged_ranges, min_duration, final_clip_ranges,
                   clip_ranges>>
    /\ UNCHANGED notNorm

\* Matches found: sort them by raw start.
ParseReply ==
    /\ pc = "call_llm"
    /\ ai_reply # <<>>
    /\ findall(ai_reply) # <<>>
    /\ matches' = SortMatches(findall(ai_reply))
    /\ pc' = "buffer"
    /\ UNCHANGED <<app_config, ai_reply, buffer_time, buffered_ranges, scan_idx,
                   merged_ranges, min_duration, final_clip_ranges, warning,
                   clip_ranges>>
    /\ UNCHANGED notNorm

\* Read buffer_time, buffer every match, sort the buffered ranges.
BufferStage ==
    /\ pc = "buffer"
    /\ buffer_time' = app_config.buffer_time
    /\ buffered_ranges' = SortRanges(BufferRanges(matches, app_config.buffer_time))
    /\ merged_ranges' = <<>>
    /\ scan_idx' = 1
    /\ pc' = "merge"
    /\ UNCHANGED <<app_config, ai_reply, matches, min_duration, final_clip_ranges,
                   warning, clip_ranges>>
    /\ UNCHANGED notNorm

\* One iteration of the merge loop.  Reading merged_ranges[-1] of an empty
\* list raises IndexError, which nothing in the workflow thread catches.
ScanStep ==
    /\ pc = "merge"
    /\ scan_idx <= Len(buffered_ranges)
    /\ IF ReadsLast(merged_ranges) /\ merged_ranges = <<>>
       THEN /\ pc' = "raised"
            /\ UNCHANGED <<merged_ranges, scan_idx>>
       ELSE /\ merged_ranges' = MergeStep(merged_ranges, buffered_ranges[scan_idx])
            /\ scan_idx' = scan_idx + 1
            /\ pc' = pc
    /\ UNCHANGED <<app_config, ai_reply, matches, buffer_time, buffered_ranges,
                   min_duration, final_clip_ranges, warning, clip_ranges>>
    /\ UNCHANGED notNorm

\* After the loop: read min_duration, filter, then either warn and return or
\* call clip_videos with the final list.
FilterStage ==
    /\ pc = "merge"
    /\ scan_idx > Len(buffered_ranges)
    /\ min_duration' = app_config.min_duration
    /\ final_clip_ranges' = FilterRanges(merged_ranges, app_config.min_duration)
    /\ IF final_clip_ranges' = <<>>
       THEN /\ warning' = "empty_after_filtering"
            /\ pc' = "stopped"
            /\ UNCHANGED clip_ranges
       ELSE /\ clip_ranges' = final_clip_ranges'
            /\ pc' = "clip_videos"
            /\ UNCHANGED warning
    /\ UNCHANGED <<app_config, ai_reply, matches, buffer_time, buffered_ranges,
                   scan_idx, merged_ranges>>
    /\ UNCHANGED notNorm

Next ==
    \/ InvalidReply
    \/ NothingFound
    \/ ParseReply
    \/ BufferStage
    \/ ScanStep
    \/ FilterStage

Spec == Init /\ [][Next]_vars

(***************************************************************************)
(* Properties.                                                             *)
(***************************************************************************)
\* FilterStage has run: min_duration and final_clip_ranges are set.
Filtered == pc = "clip_videos" \/ warning = "empty_after_filtering"

Duration(r) == r[2] - r[1]

\* C1: with buffer_time >= 0 and min_duration >= 0, each range of the final
\* clip list starts more than merge_gap after the end of the range before it.
C1_SeparatedByMoreThanGap ==
    (Filtered /\ buffer_time >= 0 /\ min_duration >= 0) =>
        \A i \in 1..(Len(final_clip_ranges) - 1) :
            final_clip_ranges[i + 1][1] > final_clip_ranges[i][2] + merge_gap

\* C1 witness: two final ranges that were not neighbours in the merged list
\* (the filter dropped the range between them).
C1_Witness ==
    /\ Filtered /\ buffer_time >= 0 /\ min_duration >= 0
    /\ Len(final_clip_ranges) = 2
    /\ Len(merged_ranges) = 3
    /\ final_clip_ranges[1] = merged_ranges[1]
    /\ final_clip_ranges[2] = merged_ranges[3]

\* C2: the final clip list is strictly ascending by start.
C2_StrictlyAscendingStarts ==
    \A i, j \in 1..Len(final_clip_ranges) :
        i < j => final_clip_ranges[i][1] < final_clip_ranges[j][1]

\* C2 witness: a final list of two ranges from a reply that gave them in
\* descending order, one of them twice over (two lines with the same start).
C2_Witness ==
    /\ Filtered
    /\ Len(final_clip_ranges) = 2
    /\ Len(findall(ai_reply)) = 3
    /\ hms_to_sec(findall(ai_reply)[1][1]) > hms_to_sec(findall(ai_reply)[2][1])
    /\ hms_to_sec(findall(ai_reply)[2][1]) = hms_to_sec(findall(ai_reply)[3][1])
    /\ findall(ai_reply)[2][2] # findall(ai_reply)[3][2]

\* C3: the final clip list is the subsequence of the merged ranges whose
\* duration is at least min_duration: nothing shorter is in it, nothing long
\* enough is missing from it, and the order is that of the merged list.
C3_FilterIsSubsequence ==
    Filtered =>
        LET kept == {k \in 1..Len(merged_ranges) : Duration(merged_ranges[k]) >= min_duration}
        IN  /\ Len(final_clip_ranges) = Cardinality(kept)
            /\ \A i \in 1..Len(final_clip_ranges) :
                   /\ Duration(final_clip_ranges[i]) >= min_duration
                   /\ \E k \in kept :
                          /\ merged_ranges[k] = final_clip_ranges[i]
                          /\ Cardinality({k2 \in kept : k2 < k}) = i - 1

\* C3 witness: a merged range of exactly the minimum duration is kept while a
\* shorter one is dropped.
C3_Witness ==
    /\ Filtered
    /\ \E r \in Range(final_clip_ranges) : Duration(r) = min_duration
    /\ \E r \in Range(merged_ranges) : Duration(r) < min_duration

\* C4: no range of the buffered, merged or final list has a negative start.
C4_NoNegativeStart ==
    \A r \in Range(buffered_ranges) \cup Range(merged_ranges) \cup Range(final_clip_ranges) :
        r[1] >= 0

\* C4 witness: raw start 0.200 s with a buffer of 0.5 s gives the start 0.
C4_Witness ==
    /\ Filtered
    /\ buffer_time = 500
    /\ hms_to_sec(matches[1][1]) = 200
    /\ final_clip_ranges # <<>>
    /\ final_clip_ranges[1][1] = 0

\* C5: when the buffering stage has run, the buffered list holds, for each
\* match (s, e), the range [max(0, s - buffer), e + buffer] exactly when its
\* end is after its start, and nothing else; every buffered, merged and final
\* range has end > start.
C5_BufferingKeepsProperRanges ==
    /\ \A r \in Range(buffered_ranges) \cup Range(merged_ranges)
                  \cup Range(final_clip_ranges) : r[2] > r[1]
    /\ (pc = "merge" /\ scan_idx = 1) =>
        \* (a quantifier over a singleton binds a value that is computed once)
        \A want \in {[i \in 1..Len(matches) |->
                        <<Max(0, hms_to_sec(matches[i][1]) - buffer_time),
                          hms_to_sec(matches[i][2]) + buffer_time>>]} :
            \A kept \in {{i \in 1..Len(matches) : want[i][2] > want[i][1]}} :
                /\ Len(buffered_ranges) = Cardinality(kept)
                /\ \A i \in 1..Len(matches) :
                       (i \in kept) <=> (want[i] \in Range(buffered_ranges))
                /\ \A r \in Range(buffered_ranges) : \E i \in kept : r = want[i]

\* C5 witness: a match whose buffered end equals its buffered start was
\* dropped while another match was kept.
C5_Witness ==
    /\ pc = "merge" /\ scan_idx = 1
    /\ buffered_ranges # <<>>
    /\ \E i \in 1..Len(matches) :
           hms_to_sec(matches[i][2]) + buffer_time
               = Max(0, hms_to_sec(matches[i][1]) - buffer_time)
    /\ Len(buffered_ranges) < Len(matches)

\* C6: an iteration of the merge loop over the range (s, e) appends (s, e)
\* exactly when the merged list is empty or s > last.end + merge_gap, and
\* otherwise changes only last.end, to max(last.end, e); in every step the
\* ranges already in the merged list keep their start and their end does not
\* decrease.
C6_ScanStepShape ==
    [][ /\ \A k \in 1..Len(merged_ranges) :
              /\ Len(merged_ranges') >= k
              /\ merged_ranges'[k][1] = merged_ranges[k][1]
              /\ merged_ranges'[k][2] >= merged_ranges[k][2]
        /\ (pc = "merge" /\ scan_idx <= Len(buffered_ranges)) =>
              LET r == buffered_ranges[scan_idx]
                  n == Len(merged_ranges)
              IN  IF n = 0 \/ r[1] > merged_ranges[n][2] + merge_gap
                  THEN merged_ranges' = Append(merged_ranges, r)
                  ELSE /\ Len(merged_ranges') = n
                       /\ \A k \in 1..(n - 1) : merged_ranges'[k] = merged_ranges[k]
                       /\ merged_ranges'[n][1] = merged_ranges[n][1]
                       /\ merged_ranges'[n][2] = Max(merged_ranges[n][2], r[2])
      ]_vars

\* C6 witness: the loop has merged a second range that ends before the end of
\* the first, and a third that ends after it.
C6_Witness ==
    /\ pc = "merge"
    /\ scan_idx = 4
    /\ Len(merged_ranges) = 1
    /\ buffered_ranges[2][2] < buffered_ranges[1][2]
    /\ buffered_ranges[3][2] > buffered_ranges[1][2]
    /\ merged_ranges[1] = <<buffered_ranges[1][1], buffered_ranges[3][2]>>

\* C7: once the workflow has left process_with_llm, the "nothing found"
\* warning was raised exactly if the reply holds no match, the "empty after
\* filtering" warning exactly if it holds a match and the final list is
\* empty, and with either warning the workflow stopped without calling
\* clip_videos.
C7_TwoEmptyOutcomes ==
    pc \in {"stopped", "clip_videos"} =>
        /\ (warning = "nothing_found") <=> (findall(ai_reply) = <<>>)
        /\ (warning = "empty_after_filtering")
               <=> (findall(ai_reply) # <<>> /\ final_clip_ranges = <<>>)
        /\ (warning # "none") => (pc = "stopped" /\ clip_ranges = <<>>)

\* Steps process_with_llm can still take, at most: the stages ahead and the
\* iterations of the merge loop that are left.
Remaining ==
    CASE pc = "call_llm" -> Len(ai_reply) + 3
      [] pc = "buffer"   -> Len(matches) + 2
      [] pc = "merge"    -> Len(buffered_ranges) - scan_idx + 2
      [] OTHER           -> 0

\* C8: the normalization never raises and terminates: every step brings the
\* workflow closer to the point where process_with_llm returns or calls
\* clip_videos, and only there is no step left.
C8_TotalNormalization ==
    /\ [](pc # "raised")
    /\ []((Remaining = 0) <=> (pc \in {"stopped", "clip_videos"}))
    /\ [][Remaining' < Remaining /\ Remaining' >= 0]_vars

\* C8 witness: the worst case, every match dropped, ends with an empty list.
C8_Witness ==
    /\ pc = "stopped"
    /\ warning = "empty_after_filtering"
    /\ Len(matches) = MaxLines
    /\ buffered_ranges = <<>>
    /\ final_clip_ranges = <<>>

\* C9: the clip list is the one that buffer_time and min_duration clamped at
\* 0 produce.
C9_NegativeSettingsClamped ==
    Filtered =>
        final_clip_ranges
            = Normalize(ai_reply, Max(0, buffer_time), Max(0, min_duration))

\* The ranges of the reply as times, in the order of the text.
RawRanges(reply) ==
    [i \in 1..Len(findall(reply)) |->
        <<hms_to_sec(findall(reply)[i][1]), hms_to_sec(findall(reply)[i][2])>>]

\* Sorted by start and already merged, each at least mind long.
SortedMergedLong(rs, mind) ==
    /\ \A i \in 1..(Len(rs) - 1) :
           rs[i][1] <= rs[i + 1][1] /\ rs[i + 1][1] > rs[i][2] + merge_gap
    /\ \A i \in 1..Len(rs) : Duration(rs[i]) >= mind

\* A clip list written out as a reply, one range per line.
ReplyOf(rs) == Flatten([i \in 1..Len(rs) |-> RangeLine(rs[i][1], rs[i][2])])

\* C10 as claimed: with settings that are not negative, a reply whose ranges
\* are sorted, merged and long enough comes back unchanged, and so does the
\* normalization's own output.
C10_FixedPointAsClaimed ==
    (Filtered /\ buffer_time >= 0 /\ min_duration >= 0) =>
        \A raw \in {RawRanges(ai_reply)} :
            /\ SortedMergedLong(raw, min_duration) => final_clip_ranges = raw
            /\ Normalize(ReplyOf(final_clip_ranges), buffer_time, min_duration)
                   = final_clip_ranges

\* C10 amended: with buffer_time = 0, a reply whose ranges have end > start
\* and are sorted, merged and long enough comes back unchanged, and so does
\* the normalization's own output.
C10_FixedPointWithoutBuffer ==
    (Filtered /\ buffer_time = 0) =>
        \A raw \in {RawRanges(ai_reply)} :
            /\ (/\ SortedMergedLong(raw, min_duration)
                /\ \A i \in 1..Len(raw) : raw[i][2] > raw[i][1])
                   => final_clip_ranges = raw
            /\ Normalize(ReplyOf(final_clip_ranges), 0, min_duration)
                   = final_clip_ranges

\* C10 witness: three ranges, one of exactly the minimum duration, come back
\* unchanged.
C10_Witness ==
    /\ Filtered /\ buffer_time = 0
    /\ Len(final_clip_ranges) = 3
    /\ final_clip_ranges = RawRanges(ai_reply)
    /\ \E r \in Range(final_clip_ranges) : Duration(r) = min_duration

(***************************************************************************)
(* Order of the reply.  The instance for the claims about the order of     *)
(* the lines: the replies made of ranges with two starts and two lengths,  *)
(* in every order and with repetition, and one reply without a match.      *)
(***************************************************************************)
OrderLines == {RangeLine(s, s + d) : s \in {200, 2200}, d \in {500, 1000}}

OrderReplies ==
    {Flatten(ls) : ls \in UNION {[1..n -> OrderLines] : n \in 0..MaxLines}}
    \cup {<<SrtStamp(200), Dash, SrtStamp(1200)>>}

OrderInit == StartOf(OrderReplies)

OrderSpec == OrderInit /\ [][Next]_vars

\* The permutations of 1..n, for each number of matches a reply can hold.
PermsOf ==
    [n \in 0..MaxLines |->
        {p \in [1..n -> 1..n] : \A i, j \in 1..n : i # j => p[i] # p[j]}]

\* The normalization from the matches on, as lines 582-607 compute it.
NormalizeMatches(ms, buf, mind) ==
    FilterRanges(MergeRanges(SortRanges(BufferRanges(SortMatches(ms), buf))), mind)

\* C11: the final clip list is the one that every permutation of the reply's
\* matches produces under the same settings.
C11_OrderIndependent ==
    Filtered =>
        \A ms \in {findall(ai_reply)} :
            \A p \in PermsOf[Len(ms)] :
                NormalizeMatches([i \in 1..Len(ms) |-> ms[p[i]]],
                                 buffer_time, min_duration)
                    = final_clip_ranges

\* C11 witness: three matches given in descending order of start, two of
\* them with the same start and different ends, the longer one first, and a
\* clip list that is not empty.
C11_Witness ==
    /\ Filtered
    /\ final_clip_ranges # <<>>
    /\ Len(findall(ai_reply)) = 3
    /\ \A ms \in {findall(ai_reply)} :
           /\ hms_to_sec(ms[1][1]) > hms_to_sec(ms[2][1])
           /\ hms_to_sec(ms[2][1]) = hms_to_sec(ms[3][1])
           /\ hms_to_sec(ms[2][2]) > hms_to_sec(ms[3][2])

\* Every gap between neighbours of a list sorted by start is at most
\* merge_gap.
AllGapsWithin(rs) ==
    \A i \in 1..(Len(rs) - 1) : rs[i + 1][1] - rs[i][2] <= merge_gap

\* The largest end of a list of ranges that is not empty.
MaxEnd(rs) ==
    CHOOSE e \in {rs[i][2] : i \in 1..Len(rs)} : \A i \in 1..Len(rs) : rs[i][2] <= e

\* C12 as claimed: with settings that are not negative, when every gap
\* between neighbouring buffered ranges is at most merge_gap, the final clip
\* list is the one range from the smallest buffered start to the largest
\* buffered end.
C12_CollapseAsClaimed ==
    (/\ Filtered /\ buffer_time >= 0 /\ min_duration >= 0
     /\ buffered_ranges # <<>> /\ AllGapsWithin(buffered_ranges)) =>
        final_clip_ranges
            = << <<buffered_ranges[1][1], MaxEnd(buffered_ranges)>> >>

\* C12 amended: when there is a buffered range and every gap between
\* neighbouring buffered ranges is at most merge_gap, the merged list is the
\* one range from the smallest buffered start to the largest buffered end,
\* and the final clip list is that range if it lasts min_duration or more
\* and is empty otherwise.
C12_TransitiveMerging ==
    (Filtered /\ buffered_ranges # <<>> /\ AllGapsWithin(buffered_ranges)) =>
        \A one \in {<<buffered_ranges[1][1], MaxEnd(buffered_ranges)>>} :
            /\ merged_ranges = <<one>>
            /\ final_clip_ranges
                   = IF Duration(one) >= min_duration THEN <<one>> ELSE <<>>

\* C12 witness: three buffered ranges, the second starting exactly merge_gap
\* after the end of the first and the third touching the second, collapsed
\* into one range that is kept.
C12_Witness ==
    /\ Filtered
    /\ Len(buffered_ranges) = 3
    /\ buffered_ranges[2][1] - buffered_ranges[1][2] = merge_gap
    /\ buffered_ranges[3][1] = buffered_ranges[2][2]
    /\ Len(merged_ranges) = 1
    /\ final_clip_ranges = merged_ranges

(***************************************************************************)
(* Pairs of ranges.  The instance for the claims about two ranges: the     *)
(* replies of at most two ranges over three starts and three lengths, one  *)
(* of them zero, and one reply without a match.                            *)
(***************************************************************************)
PairLines == {RangeLine(s, s + d) : s \in {200, 600, 1400}, d \in {0, 300, 1000}}

PairReplies ==
    {Flatten(ls) : ls \in UNION {[1..n -> PairLines] : n \in 0..2}}
    \cup {<<SrtStamp(200), Dash, SrtStamp(1200)>>}

PairInit == StartOf(PairReplies)

PairSpec == PairInit /\ [][Next]_vars

\* Raw ranges a and b, a starting first and b starting after a's end, whose
\* buffered values are within merge_gap of each other.
MergedByBuffer(a, b, buf) ==
    /\ a[1] <= b[1]
    /\ b[1] > a[2]
    /\ Max(0, b[1] - buf) <= a[2] + buf + merge_gap

\* C13 as claimed: the two ranges of a reply, when the buffered values are
\* within merge_gap of each other, are merged into the one range
\* [max(0, s1 - buffer), max(e1, e2) + buffer].
C13_MergedAsClaimed ==
    (Filtered /\ Len(findall(ai_reply)) = 2) =>
        \A raw \in {RawRanges(ai_reply)} :
            \A i, j \in 1..2 :
                (i # j /\ MergedByBuffer(raw[i], raw[j], buffer_time)) =>
                    merged_ranges
                        = << <<Max(0, raw[i][1] - buffer_time),
                               Max(raw[i][2], raw[j][2]) + buffer_time>> >>

\* C13 amended: with buffer_time >= 0, the two ranges of a reply, each with
\* end > start, when the buffered values are within merge_gap of each other,
\* are merged into the one range [max(0, s1 - buffer), max(e1, e2) + buffer]
\* of the merged list.
C13_MergeOnBufferedValues ==
    (Filtered /\ Len(findall(ai_reply)) = 2 /\ buffer_time >= 0) =>
        \A raw \in {RawRanges(ai_reply)} :
            \A i, j \in 1..2 :
                (/\ i # j
                 /\ raw[i][2] > raw[i][1]
                 /\ raw[j][2] > raw[j][1]
                 /\ MergedByBuffer(raw[i], raw[j], buffer_time)) =>
                    merged_ranges
                        = << <<Max(0, raw[i][1] - buffer_time),
                               Max(raw[i][2], raw[j][2]) + buffer_time>> >>

\* C13 witness: two ranges more than merge_gap apart, the later one first in
\* the reply, merged into one because of the buffer alone.
C13_Witness ==
    /\ Filtered /\ Len(findall(ai_reply)) = 2 /\ buffer_time > 0
    /\ \A raw \in {RawRanges(ai_reply)} :
           /\ raw[1][2] > raw[1][1]
           /\ raw[2][2] > raw[2][1]
           /\ MergedByBuffer(raw[2], raw[1], buffer_time)
           /\ raw[1][1] > raw[2][2] + merge_gap
    /\ Len(merged_ranges) = 1

(***************************************************************************)
(* hms_to_sec on its own.  The instance for the claims about hms_to_sec:   *)
(* the function is called on the two strings of a pair, any two of the     *)
(* strings below, and the body of the buffering loop (lines 586-590) then  *)
(* handles the pair.  In process_with_llm the pattern of line 574 passes   *)
(* well-formed stamps only; the other strings are arguments the function   *)
(* itself accepts.                                                         *)
(***************************************************************************)
StampOf(h, m, s, mmm) ==
    TwoDigits(h) \o <<":">> \o TwoDigits(m) \o <<":">> \o TwoDigits(s)
    \o <<".">> \o ThreeDigits(mmm)

\* HH:MM:SS.mmm, fields in and out of the clock's range.
WellFormed ==
    {StampOf(h, m, s, mmm) :
        h \in {0, 1, 99}, m \in {0, 59}, s \in {1, 59}, mmm \in {0, 200, 999}}

\* HH:MM:SS, no fractional part.
WholeSeconds == {SubSeq(w, 1, 8) : w \in WellFormed}

BaseStamps == {StampOf(0, 0, 1, 200), StampOf(1, 59, 59, 999)}

\* A component that float() rejects: a letter in a field, the comma of SRT
\* notation, an empty minutes field.
NonNumeric ==
    UNION {{[w EXCEPT ![2] = "x"], [w EXCEPT ![5] = "x"], [w EXCEPT ![7] = "x"],
            [w EXCEPT ![11] = "x"], [w EXCEPT ![9] = ","],
            SubSeq(w, 1, 3) \o SubSeq(w, 6, 12)} : w \in BaseStamps}

\* Two or four ':'-separated fields, or one (the empty string among them).
WrongColonFields ==
    {<<>>}
    \cup UNION {{SubSeq(w, 4, 12), SubSeq(w, 1, 3) \o w, [w EXCEPT ![3] = "."],
                 SubSeq(w, 1, 2)} : w \in BaseStamps}

\* Three '.'-separated fields in the last field, or one (the '.' elsewhere).
WrongDotFields ==
    UNION {{w \o <<".", "5">>, [w EXCEPT ![6] = ".", ![9] = ":"]} : w \in BaseStamps}

Malformed == NonNumeric \cup WrongColonFields \cup WrongDotFields

\* Not HH:MM:SS.mmm, yet float() takes every field: 1:2:3.4 and
\* 1.5:00:01.200.
Lenient ==
    {<<"1", ":", "2", ":", "3", ".", "4">>,
     <<"1", ".", "5">> \o SubSeq(StampOf(0, 0, 1, 200), 3, 12)}

HmsInputs == WellFormed \cup WholeSeconds \cup Malformed \cup Lenient

\* The workflow thread is not in process_with_llm.
NormIdle ==
    /\ app_config = [buffer_time |-> 0, min_duration |-> 0]
    /\ ai_reply = <<>>
    /\ matches = <<>>
    /\ buffer_time = 0
    /\ buffered_ranges = <<>>
    /\ scan_idx = 1
    /\ merged_ranges = <<>>
    /\ min_duration = 0
    /\ final_clip_ranges = <<>>
    /\ warning = "none"
    /\ clip_ranges = <<>>
    /\ pc = "idle"

HmsInit ==
    /\ NormIdle
    /\ SettingsIdle
    /\ ClipIdle
    /\ ThreadIdle
    /\ IsoIdle
    /\ hms_pair \in HmsInputs \X HmsInputs
    /\ hms_buffer \in BufferChoices
    /\ hms_secs = <<>>
    /\ hms_ranges = <<>>
    /\ hms_pc = "convert"

\* The two calls of hms_to_sec of lines 587 and 588 return.
CallHms ==
    /\ hms_pc = "convert"
    /\ hms_secs' = <<hms_to_sec(hms_pair[1]), hms_to_sec(hms_pair[2])>>
    /\ hms_pc' = "append"
    /\ UNCHANGED <<hms_pair, hms_buffer, hms_ranges>>
    /\ UNCHANGED notHms

\* The loop body buffers the pair and appends it, or drops it.
BufferPair ==
    /\ hms_pc = "append"
    /\ hms_ranges' = BufferRanges(<<hms_pair>>, hms_buffer)
    /\ hms_pc' = "done"
    /\ UNCHANGED <<hms_pair, hms_buffer, hms_secs>>
    /\ UNCHANGED notHms

HmsNext == CallHms \/ BufferPair

HmsSpec == HmsInit /\ [][HmsNext]_vars

\* The two digits of txt at positions i and i + 1, as a number.
FieldAt(txt, i) == DigitValue(txt[i]) * 10 + DigitValue(txt[i + 1])

\* hours * 3600000 + minutes * 60000 + seconds * 1000 + mmm, the fields read
\* off their positions in HH:MM:SS or HH:MM:SS.mmm.
ByPosition(txt) ==
    FieldAt(txt, 1) * 3600000 + FieldAt(txt, 4) * 60000 + FieldAt(txt, 7) * 1000
    + (IF Len(txt) = 12
       THEN DigitValue(txt[10]) * 100 + FieldAt(txt, 11)
       ELSE 0)

\* C14: hms_to_sec returns hours * 3600000 + minutes * 60000 + seconds * 1000
\* + mmm milliseconds for every HH:MM:SS.mmm, and for HH:MM:SS what it
\* returns for HH:MM:SS.000.
C14_HmsValue ==
    hms_pc \in {"append", "done"} =>
        \A k \in 1..2 :
            /\ hms_pair[k] \in WellFormed =>
                   hms_secs[k] = ByPosition(hms_pair[k])
            /\ hms_pair[k] \in WholeSeconds =>
                   /\ hms_secs[k] = ByPosition(hms_pair[k])
                   /\ hms_secs[k] = hms_to_sec(hms_pair[k] \o <<".", "0", "0", "0">>)

\* C14 witness: 01:59:59.999 gave 7199.999 s and 01:59:59 gave 7199 s.
C14_Witness ==
    /\ hms_pc = "done"
    /\ hms_pair = <<StampOf(1, 59, 59, 999), SubSeq(StampOf(1, 59, 59, 0), 1, 8)>>
    /\ hms_secs = <<7199999, 7199000>>

\* The value the loop body works with: 0 for a malformed string.
TreatedAs(k) == IF hms_pair[k] \in Malformed THEN 0 ELSE hms_secs[k]

\* C15: hms_to_sec returns 0 for every malformed string, and the loop body
\* goes on with 0 for it: the pair is buffered and kept or dropped as a pair
\* with that time 0 is.
C15_ParseFailureIsZero ==
    /\ hms_pc \in {"append", "done"} =>
           \A k \in 1..2 : hms_pair[k] \in Malformed => hms_secs[k] = 0
    /\ hms_pc = "done" =>
           \A start_sec \in {Max(0, TreatedAs(1) - hms_buffer)} :
               \A end_sec \in {TreatedAs(2) + hms_buffer} :
                   hms_ranges = IF end_sec > start_sec
                                THEN << <<start_sec, end_sec>> >>
                                ELSE <<>>

\* C15 witness: a start in SRT notation and a well-formed end; the pair is
\* kept as the range from 0 to the buffered end.
C15_Witness ==
    /\ hms_pc = "done"
    /\ hms_pair[1] = [StampOf(0, 0, 1, 200) EXCEPT ![9] = ","]
    /\ hms_pair[2] = StampOf(0, 0, 1, 200)
    /\ hms_buffer = 500
    /\ hms_secs = <<0, 1200>>
    /\ hms_ranges = << <<0, 1700>> >>

(***************************************************************************)
(* Settings saved while a run is under way.  process_with_llm runs on a    *)
(* workflow thread; the settings window runs on the Tk main thread and     *)
(* writes the same app_config dictionary.                                  *)
(***************************************************************************)
Configs == [buffer_time : BufferChoices, min_duration : MinDurationChoices]

\* SettingsWindow._save_and_close on the main thread, while the workflow
\* thread is in process_with_llm: app_config gets the values of the form.
SaveSettings ==
    /\ pc \in {"call_llm", "buffer", "merge"}
    /\ \E saved \in Configs : app_config' = saved
    /\ replaced' = IF pc = "merge" /\ replaced = <<>>
                   THEN <<app_config>>
                   ELSE replaced
    /\ UNCHANGED <<ai_reply, matches, buffer_time, buffered_ranges, scan_idx,
                   merged_ranges, min_duration, final_clip_ranges, warning,
                   clip_ranges, pc>>
    /\ UNCHANGED <<hmsVars, clipVars, threadVars, isoVars>>

SettingsInit == StartOf(PairReplies)

SettingsNext == Next \/ SaveSettings

SettingsSpec == SettingsInit /\ [][SettingsNext]_vars

\* C16: the clip list of a run is the one that a single configuration gives,
\* the one the run buffered with or the one it filters with: a save between
\* the two stages does not make the run use parts of both.
C16_OneConfigurationPerRun ==
    (Filtered /\ replaced # <<>>) =>
        \E c \in {replaced[1], app_config} :
            final_clip_ranges = Normalize(ai_reply, c.buffer_time, c.min_duration)

(***************************************************************************)
(* clip_videos, concatenate_clips and cleanup_temp_clips, on the workflow  *)
(* thread, from the call of clip_videos by process_with_llm to the call    *)
(* of generate_final_subtitles or the return.  An ffmpeg run is a step     *)
(* with an outcome: ok (return code 0), failed (another return code) or    *)
(* raised (an exception in the try block).                                 *)
(***************************************************************************)
normData == <<app_config, ai_reply, matches, buffer_time, buffered_ranges, scan_idx,
              merged_ranges, min_duration, final_clip_ranges, warning, clip_ranges>>

Outcomes == {"ok", "failed", "raised"}

ClipDuration_end(r) == r[2]

\* duration = end - start
ClipDuration(r) == r[2] - r[1]

\* The ffmpeg command of iteration i: -ss start, -t duration, clip_<i>.mp4.
ClipCommand(i, r) == [ss |-> r[1], t |-> ClipDuration(r), clip |-> i]

ListsClip_unless_raised(outcome) == outcome # "raised"

\* Only a return code of 0 appends the clip to list.txt and counts it.
ListsClip(outcome) == outcome = "ok"

\* successful_clips_count == 0 or list.txt is missing or empty.
NothingToMerge(count, exists, lines) == count = 0 \/ ~exists \/ lines = <<>>

AfterConcat_leaves_clips(result) ==
    IF result = "ok" THEN "cleanup_merged" ELSE "done"

\* Each of the three ends of the concat run leads to cleanup_temp_clips.
AfterConcat(result) ==
    IF result = "ok" THEN "cleanup_merged" ELSE "cleanup_not_merged"

CleanupPoints ==
    {"cleanup_no_clips", "cleanup_no_list", "cleanup_merged", "cleanup_not_merged"}

\* Lines 624-630: list.txt is created empty, the bookkeeping is reset.
ClipStart ==
    /\ pc = "clip_videos"
    /\ list_exists' = TRUE
    /\ list_txt' = <<>>
    /\ temp_clips' = <<>>
    /\ successful_clips_count' = 0
    /\ clip_i' = 1
    /\ pc' = "clip_loop"
    /\ UNCHANGED <<extractions, files, concat_state, cleanups, subs_started>>
    /\ UNCHANGED <<normData, hmsVars, settingsVars, threadVars, isoVars>>

\* One iteration of the clip loop.  A run that did not return 0 may leave a
\* partial clip file behind.
ClipStep ==
    /\ pc = "clip_loop"
    /\ clip_i <= Len(clip_ranges)
    /\ temp_clips' = Append(temp_clips, clip_i - 1)
    /\ \E outcome \in Outcomes, partial \in BOOLEAN :
           /\ outcome = "ok" => partial
           /\ extractions' = Append(extractions,
                                    [cmd     |-> ClipCommand(clip_i - 1,
                                                             clip_ranges[clip_i]),
                                     outcome |-> outcome])
           /\ files' = IF partial THEN files \cup {clip_i - 1} ELSE files
           /\ IF ListsClip(outcome)
              THEN /\ list_txt' = Append(list_txt, clip_i - 1)
                   /\ successful_clips_count' = successful_clips_count + 1
              ELSE UNCHANGED <<list_txt, successful_clips_count>>
    /\ clip_i' = clip_i + 1
    /\ UNCHANGED <<list_exists, concat_state, cleanups, subs_started, pc>>
    /\ UNCHANGED <<normData, hmsVars, settingsVars, threadVars, isoVars>>

\* After the loop: nothing to merge, so clean up; or call concatenate_clips.
AfterLoop ==
    /\ pc = "clip_loop"
    /\ clip_i > Len(clip_ranges)
    /\ pc' = IF NothingToMerge(successful_clips_count, list_exists, list_txt)
             THEN "cleanup_no_clips"
             ELSE "concatenate_clips"
    /\ UNCHANGED <<normData, hmsVars, settingsVars, clipVars, threadVars, isoVars>>

\* concatenate_clips: without a list, clean up and return; else start the
\* ffmpeg concat run, which reads list.txt and the clips it names.
ConcatStart ==
    /\ pc = "concatenate_clips"
    /\ IF ~list_exists \/ list_txt = <<>>
       THEN /\ pc' = "cleanup_no_list"
            /\ UNCHANGED concat_state
       ELSE /\ concat_state' = "running"
            /\ pc' = "concat_wait"
    /\ UNCHANGED <<list_exists, list_txt, temp_clips, successful_clips_count,
                   clip_i, extractions, files, cleanups, subs_started>>
    /\ UNCHANGED <<normData, hmsVars, settingsVars, threadVars, isoVars>>

\* subprocess.run returns, or raises CalledProcessError (failed) or another
\* exception (raised).
ConcatEnd ==
    /\ pc = "concat_wait"
    /\ \E result \in Outcomes :
           /\ concat_state' = result
           /\ pc' = AfterConcat(result)
    /\ UNCHANGED <<list_exists, list_txt, temp_clips, successful_clips_count,
                   clip_i, extractions, files, cleanups, subs_started>>
    /\ UNCHANGED <<normData, hmsVars, settingsVars, threadVars, isoVars>>

\* cleanup_temp_clips: remove every file of temp_clips and list.txt.  After
\* a successful merge generate_final_subtitles is next, else the return.
Cleanup ==
    /\ pc \in CleanupPoints
    /\ files' = files \ Range(temp_clips)
    /\ list_exists' = FALSE
    /\ list_txt' = <<>>
    /\ cleanups' = cleanups + 1
    /\ pc' = IF pc = "cleanup_merged" THEN "generate_final_subtitles" ELSE "done"
    /\ UNCHANGED <<temp_clips, successful_clips_count, clip_i, extractions,
                   concat_state, subs_started>>
    /\ UNCHANGED <<normData, hmsVars, settingsVars, threadVars, isoVars>>

\* The call of generate_final_subtitles at the end of concatenate_clips.
GenerateFinalSubtitles ==
    /\ pc = "generate_final_subtitles"
    /\ subs_started' = TRUE
    /\ pc' = "done"
    /\ UNCHANGED <<list_exists, list_txt, temp_clips, successful_clips_count,
                   clip_i, extractions, files, concat_state, cleanups>>
    /\ UNCHANGED <<normData, hmsVars, settingsVars, threadVars, isoVars>>

\* Replies of ranges one second long and two seconds apart, in every order.
ClipLines == {RangeLine(s, s + 1000) : s \in RawStarts}

ClipReplies ==
    {Flatten(ls) : ls \in UNION {[1..n -> ClipLines] : n \in 0..MaxLines}}
    \cup {<<SrtStamp(200), Dash, SrtStamp(1200)>>}

ClipInit == StartOf(ClipReplies)

\* The steps from the call of clip_videos on.
ClipStage ==
    \/ ClipStart
    \/ ClipStep
    \/ AfterLoop
    \/ ConcatStart
    \/ ConcatEnd
    \/ Cleanup
    \/ GenerateFinalSubtitles

ClipNext == Next \/ ClipStage

ClipSpec == ClipInit /\ [][ClipNext]_vars

\* clip_videos has been called.
InClipVideos ==
    pc \in {"clip_videos", "clip_loop", "concatenate_clips", "concat_wait",
            "generate_final_subtitles", "done"} \cup CleanupPoints

\* C17: clip_videos is called with a list that is not empty, and the
\* commands it has issued are those of the first ranges of the list, one per
\* range and in list order: command k has -ss the start of range k, -t its
\* end minus its start, and writes clip k - 1; once the loop is over there is
\* one command per range.
C17_OneExtractionPerRange ==
    InClipVideos =>
        /\ clip_ranges # <<>>
        /\ clip_ranges = final_clip_ranges
        /\ Len(extractions) <= Len(clip_ranges)
        /\ pc = "clip_loop" => Len(extractions) = clip_i - 1
        /\ pc \notin {"clip_videos", "clip_loop"} =>
               Len(extractions) = Len(clip_ranges)
        /\ \A k \in 1..Len(extractions) :
               extractions[k].cmd
                   = [ss   |-> clip_ranges[k][1],
                      t    |-> clip_ranges[k][2] - clip_ranges[k][1],
                      clip |-> k - 1]

\* C17 witness: three ranges, three commands, the second of which failed.
C17_Witness ==
    /\ pc = "concatenate_clips"
    /\ Len(clip_ranges) = 3
    /\ Len(extractions) = 3
    /\ extractions[2].outcome = "failed"
    /\ extractions[3].cmd = [ss |-> 4200, t |-> 1000, clip |-> 2]

\* The clip indices of the commands that returned 0, in the order issued.
RECURSIVE SucceededClips(_)
SucceededClips(es) ==
    IF es = <<>> THEN <<>>
    ELSE SucceededClips(Front(es))
         \o (IF Last(es).outcome = "ok" THEN <<Last(es).cmd.clip>> ELSE <<>>)

\* C19: from the start of the clip loop to the start of the concat run or of
\* the cleanup, list.txt holds exactly the clips whose command returned 0, in
\* ascending order of clip index, and successful_clips_count is its number
\* of lines; after the loop concatenate_clips is called if that count is at
\* least 1, and cleanup_temp_clips otherwise.
C19_ListHoldsSucceededClips ==
    /\ pc \in {"clip_loop", "concatenate_clips", "cleanup_no_clips", "concat_wait"} =>
           /\ list_exists
           /\ list_txt = SucceededClips(extractions)
           /\ \A i, j \in 1..Len(list_txt) : i < j => list_txt[i] < list_txt[j]
           /\ successful_clips_count = Len(list_txt)
    /\ pc = "concatenate_clips" => successful_clips_count >= 1
    /\ pc = "cleanup_no_clips" => successful_clips_count = 0
    /\ pc \in {"concat_wait", "cleanup_merged", "cleanup_not_merged",
               "generate_final_subtitles"} => successful_clips_count >= 1
    /\ pc # "cleanup_no_list"

\* C19 witness: of three clips the first failed and the second raised; the
\* list holds the third only, and concatenate_clips is called.
C19_Witness ==
    /\ pc = "concatenate_clips"
    /\ Len(extractions) = 3
    /\ extractions[1].outcome = "failed"
    /\ extractions[2].outcome = "raised"
    /\ list_txt = <<2>>
    /\ successful_clips_count = 1

\* From the call of clip_videos on, the workflow thread takes its next step
\* as long as it has one: no ffmpeg run hangs for ever.
FairClipSpec == ClipSpec /\ WF_vars(ClipStage)

notThread == <<normVars, hmsVars, settingsVars, clipVars, isoVars>>

\* The calls that open a window and wait for the user.
Dialogs == {"askopenfilename", "showerror", "showinfo", "showwarning",
            "SubtitleEditorWindow", "askyesno"}

MessageBoxes == {"showerror", "showinfo", "showwarning"}

\* The calls that take long: whisper, the language model, ffmpeg.
LongRunning == {"transcribe", "call_llm", "ffmpeg_clip", "ffmpeg_concat",
                "ffmpeg_embed"}

\* The thread a callback runs on when the caller executes it itself.
root_after_direct_call(caller) == caller

\* root.after(0, f): Tk runs f from the event loop, whichever thread asked for
\* it: on the thread that called root.mainloop().
root_after(caller) == "main"

\* The queue after `caller`, executing function `at`, calls root.after(0, fn).
Schedule(q, caller, fn, at) ==
    Append(q, [fn |-> fn, at |-> at, on |-> root_after(caller)])

\* The record of one dialog or long-running call.
Ran(what, at, on) == [what |-> what, at |-> at, on |-> on]

\* No thread of a workflow is running, no callback is scheduled and no editor
\* is open: one workflow at a time.
Quiescent ==
    /\ tk_queue = <<>>
    /\ ~editor_open
    /\ \A t \in Targets : workers[t] \in {"none", "end"}

\* The user clicks the start button: the command runs in the main loop.
\* check_configuration schedules an error box and the workflow stops, or the
\* first thread is started.
Main_start_processing_workflow ==
    /\ Quiescent
    /\ ran' = {}
    /\ clips_left' = 0
    /\ clips_made' = FALSE
    /\ \E valid \in BOOLEAN :
        IF valid
        THEN /\ workers' = [t \in Targets |->
                               IF t = "_processing_workflow_thread"
                               THEN "select_video" ELSE "none"]
             /\ UNCHANGED tk_queue
        ELSE /\ workers' = [t \in Targets |-> "none"]
             /\ tk_queue' = Schedule(tk_queue, "main", "showerror",
                                     "check_configuration")
    /\ UNCHANGED editor_open
    /\ UNCHANGED notThread

\* _processing_workflow_thread: select_video hands the file dialog to the
\* main loop and the thread ends.
Thread_select_video ==
    /\ workers["_processing_workflow_thread"] = "select_video"
    /\ tk_queue' = Schedule(tk_queue, "_processing_workflow_thread",
                            "_select_video_in_main_thread", "select_video")
    /\ workers' = [workers EXCEPT !["_processing_workflow_thread"] = "end"]
    /\ UNCHANGED <<editor_open, clips_left, clips_made, ran>>
    /\ UNCHANGED notThread

\* The main loop runs a scheduled message box.
Main_messagebox ==
    /\ tk_queue # <<>>
    /\ Head(tk_queue).fn \in MessageBoxes
    /\ ran' = ran \cup {Ran(Head(tk_queue).fn, Head(tk_queue).at, Head(tk_queue).on)}
    /\ tk_queue' = Tail(tk_queue)
    /\ UNCHANGED <<workers, editor_open, clips_left, clips_made>>
    /\ UNCHANGED notThread

\* The main loop runs _select_video_in_main_thread: the file dialog, then an
\* information box is scheduled or the second thread is started.
Main_select_video_in_main_thread ==
    /\ tk_queue # <<>>
    /\ Head(tk_queue).fn = "_select_video_in_main_thread"
    /\ ran' = ran \cup {Ran("askopenfilename", "_select_video_in_main_thread",
                            Head(tk_queue).on)}
    /\ \E chosen \in BOOLEAN :
        IF chosen
        THEN /\ workers' = [workers EXCEPT !["_resume_processing_after_select"] =
                                               "generate_subtitles_if_needed"]
             /\ tk_queue' = Tail(tk_queue)
        ELSE /\ tk_queue' = Schedule(Tail(tk_queue), Head(tk_queue).on, "showinfo",
                                     "_select_video_in_main_thread")
             /\ UNCHANGED workers
    /\ UNCHANGED <<editor_open, clips_left, clips_made>>
    /\ UNCHANGED notThread

\* A step of the thread `w` at `from`: it may run a long call, schedule
\* callbacks and move on.
WorkerStep(w, from, long, scheduled, to) ==
    /\ workers[w] = from
    /\ ran' = IF long = "none" THEN ran ELSE ran \cup {Ran(long, from, w)}
    /\ tk_queue' = IF scheduled = "none" THEN tk_queue
                   ELSE Schedule(tk_queue, w, scheduled, from)
    /\ workers' = [workers EXCEPT ![w] = to]

\* generate_subtitles_if_needed: the subtitle file exists, or whisper
\* transcribes the video, or the transcription raises.
Thread_generate_subtitles_if_needed ==
    /\ \E o \in {"srt_exists", "transcribed", "raised"} :
        WorkerStep("_resume_processing_after_select", "generate_subtitles_if_needed",
                   IF o = "srt_exists" THEN "none" ELSE "transcribe",
                   IF o = "raised" THEN "showerror" ELSE "none",
                   IF o = "raised" THEN "end" ELSE "process_with_llm")
    /\ UNCHANGED <<editor_open, clips_left, clips_made>>
    /\ UNCHANGED notThread

\* process_with_llm up to the prompt: the subtitle file cannot be read, the
\* template is unusable, or the prompt is built.
Thread_process_with_llm ==
    /\ \E o \in {"unreadable", "bad_template", "prompt"} :
        WorkerStep("_resume_processing_after_select", "process_with_llm", "none",
                   IF o = "prompt" THEN "none" ELSE "showerror",
                   IF o = "prompt" THEN "call_llm" ELSE "end")
    /\ UNCHANGED <<editor_open, clips_left, clips_made>>
    /\ UNCHANGED notThread

\* call_llm and the normalization of its reply: an error reply, no range, no
\* range left after filtering, or clip_videos is called with some ranges.
Thread_call_llm ==
    /\ \E o \in {"error", "no_ranges", "filtered_out", "ranges"} :
        /\ WorkerStep("_resume_processing_after_select", "call_llm", "call_llm",
                      IF o \in {"no_ranges", "filtered_out"} THEN "showwarning"
                      ELSE "none",
                      IF o = "ranges" THEN "clip_videos" ELSE "end")
        /\ IF o = "ranges"
           THEN clips_left' \in 1..MaxLines
           ELSE UNCHANGED clips_left
    /\ clips_made' = FALSE
    /\ UNCHANGED editor_open
    /\ UNCHANGED notThread

\* One iteration of the loop of clip_videos.
Thread_clip_videos ==
    /\ clips_left > 0
    /\ \E o \in Outcomes :
        /\ WorkerStep("_resume_processing_after_select", "clip_videos", "ffmpeg_clip",
                      IF ListsClip(o) THEN "none" ELSE "showwarning",
                      "clip_videos")
        /\ clips_made' = (clips_made \/ ListsClip(o))
    /\ clips_left' = clips_left - 1
    /\ UNCHANGED editor_open
    /\ UNCHANGED notThread

\* After the loop: a warning when no clip was made, else concatenate_clips.
Thread_after_clip_loop ==
    /\ clips_left = 0
    /\ WorkerStep("_resume_processing_after_select", "clip_videos", "none",
                  IF clips_made THEN "none" ELSE "showwarning",
                  IF clips_made THEN "concatenate_clips" ELSE "end")
    /\ UNCHANGED <<editor_open, clips_left, clips_made>>
    /\ UNCHANGED notThread

\* concatenate_clips: the list is missing (nothing is shown), or ffmpeg runs
\* and succeeds, fails or raises.
Thread_concatenate_clips ==
    /\ \E o \in {"no_list", "ok", "failed", "raised"} :
        WorkerStep("_resume_processing_after_select", "concatenate_clips",
                   IF o = "no_list" THEN "none" ELSE "ffmpeg_concat",
                   IF o \in {"failed", "raised"} THEN "showerror" ELSE "none",
                   IF o = "ok" THEN "generate_final_subtitles" ELSE "end")
    /\ UNCHANGED <<editor_open, clips_left, clips_made>>
    /\ UNCHANGED notThread

\* generate_final_subtitles: the merged video is missing, or whisper
\* transcribes it and the editor is scheduled, or the transcription raises.
Thread_generate_final_subtitles ==
    /\ \E o \in {"missing", "transcribed", "raised"} :
        WorkerStep("_resume_processing_after_select", "generate_final_subtitles",
                   IF o = "missing" THEN "none" ELSE "transcribe",
                   IF o = "transcribed" THEN "show_subtitle_editor" ELSE "showerror",
                   "end")
    /\ UNCHANGED <<editor_open, clips_left, clips_made>>
    /\ UNCHANGED notThread

\* The main loop runs show_subtitle_editor: the editor window opens and
\* wait_window waits for it.
Main_show_subtitle_editor ==
    /\ tk_queue # <<>>
    /\ Head(tk_queue).fn = "show_subtitle_editor"
    /\ ran' = ran \cup {Ran("SubtitleEditorWindow", "show_subtitle_editor",
                            Head(tk_queue).on)}
    /\ editor_open' = TRUE
    /\ tk_queue' = Tail(tk_queue)
    /\ UNCHANGED <<workers, clips_left, clips_made>>
    /\ UNCHANGED notThread

\* The user leaves the editor: the window is closed, or its button calls
\* save_edited_subtitles in the main loop, which schedules the confirmation
\* or an error box.
Main_save_edited_subtitles ==
    /\ editor_open
    /\ editor_open' = FALSE
    /\ \E o \in {"closed", "saved", "io_error"} :
        tk_queue' = IF o = "closed" THEN tk_queue
                    ELSE Schedule(tk_queue, "main",
                                  IF o = "saved" THEN "prompt_final_merge"
                                  ELSE "showerror",
                                  "save_edited_subtitles")
    /\ UNCHANGED <<workers, clips_left, clips_made, ran>>
    /\ UNCHANGED notThread

\* The main loop runs prompt_final_merge: the question, then the third
\* thread is started or an information box is shown at once.
Main_prompt_final_merge ==
    /\ tk_queue # <<>>
    /\ Head(tk_queue).fn = "prompt_final_merge"
    /\ tk_queue' = Tail(tk_queue)
    /\ \E yes \in BOOLEAN :
        IF yes
        THEN /\ workers' = [workers EXCEPT !["embed_subtitles_to_video"] =
                                               "embed_subtitles_to_video"]
             /\ ran' = ran \cup {Ran("askyesno", "prompt_final_merge",
                                     Head(tk_queue).on)}
        ELSE /\ UNCHANGED workers
             /\ ran' = ran \cup {Ran("askyesno", "prompt_final_merge",
                                     Head(tk_queue).on),
                                 Ran("showinfo", "prompt_final_merge",
                                     Head(tk_queue).on)}
    /\ UNCHANGED <<editor_open, clips_left, clips_made>>
    /\ UNCHANGED notThread

\* embed_subtitles_to_video: a file is missing, or an information box is
\* scheduled, ffmpeg runs, and a second box reports the result.
Thread_embed_subtitles_to_video ==
    /\ workers["embed_subtitles_to_video"] = "embed_subtitles_to_video"
    /\ workers' = [workers EXCEPT !["embed_subtitles_to_video"] = "end"]
    /\ \E o \in {"missing", "ok", "failed", "raised"} :
        IF o = "missing"
        THEN /\ tk_queue' = Schedule(tk_queue, "embed_subtitles_to_video",
                                     "showerror", "embed_subtitles_to_video")
             /\ UNCHANGED ran
        ELSE /\ tk_queue' = Schedule(Schedule(tk_queue, "embed_subtitles_to_video",
                                              "showinfo", "embed_subtitles_to_video"),
                                     "embed_subtitles_to_video",
                                     IF o = "ok" THEN "showinfo" ELSE "showerror",
                                     "embed_subtitles_to_video")
             /\ ran' = ran \cup {Ran("ffmpeg_embed", "embed_subtitles_to_video",
                                     "embed_subtitles_to_video")}
    /\ UNCHANGED <<editor_open, clips_left, clips_made>>
    /\ UNCHANGED notThread

ThreadInit ==
    /\ NormIdle
    /\ HmsIdle
    /\ SettingsIdle
    /\ ClipIdle
    /\ ThreadIdle
    /\ IsoIdle

ThreadNext ==
    \/ Main_start_processing_workflow
    \/ Thread_select_video
    \/ Main_messagebox
    \/ Main_select_video_in_main_thread
    \/ Thread_generate_subtitles_if_needed
    \/ Thread_process_with_llm
    \/ Thread_call_llm
    \/ Thread_clip_videos
    \/ Thread_after_clip_loop
    \/ Thread_concatenate_clips
    \/ Thread_generate_final_subtitles
    \/ Main_show_subtitle_editor
    \/ Main_save_edited_subtitles
    \/ Main_prompt_final_merge
    \/ Thread_embed_subtitles_to_video

ThreadSpec == ThreadInit /\ [][ThreadNext]_vars

\* C18: every dialog (file chooser, message box, subtitle editor, merge
\* confirmation) runs on the Tk main thread, every callback waiting in the
\* Tk queue will run there, and every transcription, LLM call and ffmpeg run
\* (clip, concatenate, embed) runs on a thread started with threading.Thread.
C18_DialogsOnMainWorkInBackground ==
    /\ \A e \in ran :
        /\ e.what \in Dialogs => e.on = "main"
        /\ e.what \in LongRunning => e.on \in Targets
    /\ \A k \in 1..Len(tk_queue) : tk_queue[k].on = "main"

\* One workflow has shown every kind of dialog and made every kind of
\* long-running call.
C18_Witness ==
    /\ Dialogs \cup LongRunning \subseteq {e.what : e \in ran}
    /\ \E e \in ran : e.what = "showwarning" /\ e.at = "clip_videos"
    /\ \E e \in ran : e.what = "showerror" /\ e.at = "embed_subtitles_to_video"


\* ---------------------------------------------------------------------------
\* Two workflows of one window: the start button pressed again
\* ---------------------------------------------------------------------------

notIso == <<normVars, hmsVars, settingsVars, threadVars, successful_clips_count,
            clip_i, extractions, concat_state, cleanups, subs_started>>

\* What the file dialog can return: a video, or "" when it is cancelled.
Videos == {"a.mp4", "b.mp4"}

\* The clip files with the file of clip i written anew by workflow w.
Written(owners, i, w) ==
    {f \in owners : f.clip # i} \cup {[clip |-> i, by |-> w]}

\* The button is pressed (it is never disabled): check_configuration passes,
\* the thread is started and hands the file dialog to the main loop.
PressStart(w) ==
    /\ workflows[w].pc = "idle"
    /\ workflows' = [workflows EXCEPT ![w].pc = "select_video"]
    /\ UNCHANGED <<video_path, clip_owner>>
    /\ UNCHANGED <<list_exists, list_txt, temp_clips, files>>
    /\ UNCHANGED notIso

\* _select_video_in_main_thread: line 456 assigns what the dialog returned
\* to self.video_path, then the workflow ends (cancelled) or its thread
\* _resume_processing_after_select is started.
SelectVideo(w) ==
    /\ workflows[w].pc = "select_video"
    /\ \E chosen \in Videos \cup {""} :
        /\ video_path' = chosen
        /\ workflows' = [workflows EXCEPT
                            ![w].pc = IF chosen = "" THEN "done"
                                      ELSE "generate_subtitles_if_needed",
                            ![w].video = chosen]
    /\ UNCHANGED clip_owner
    /\ UNCHANGED <<list_exists, list_txt, temp_clips, files>>
    /\ UNCHANGED notIso

\* generate_subtitles_if_needed and process_with_llm: the workflow ends
\* without ranges, or calls clip_videos with some.
Analyse(w) ==
    /\ workflows[w].pc = "generate_subtitles_if_needed"
    /\ \E n \in 0..MaxLines :
        workflows' = [workflows EXCEPT
                         ![w].pc = IF n = 0 THEN "done" ELSE "clip_videos",
                         ![w].n = n]
    /\ UNCHANGED <<video_path, clip_owner>>
    /\ UNCHANGED <<list_exists, list_txt, temp_clips, files>>
    /\ UNCHANGED notIso

\* clip_videos, lines 624-631: list.txt is emptied and self.temp_clips is
\* replaced by a new list.
BeginClips(w) ==
    /\ workflows[w].pc = "clip_videos"
    /\ list_exists' = TRUE
    /\ list_txt' = <<>>
    /\ temp_clips' = <<>>
    /\ workflows' = [workflows EXCEPT ![w].pc = "clip_loop", ![w].i = 1,
                                     ![w].count = 0, ![w].mine = <<>>,
                                     ![w].listed = <<>>]
    /\ UNCHANGED <<video_path, clip_owner, files>>
    /\ UNCHANGED notIso

\* One iteration of the clip loop: the clip is appended to self.temp_clips,
\* ffmpeg reads self.video_path and writes the clip file, and on return code
\* 0 a line is appended to list.txt (open(..., "a") creates it if missing).
ClipOne(w) ==
    /\ workflows[w].pc = "clip_loop"
    /\ workflows[w].i <= workflows[w].n
    /\ temp_clips' = Append(temp_clips, workflows[w].i)
    /\ \E outcome \in Outcomes :
        IF ListsClip(outcome)
        THEN /\ clip_owner' = Written(clip_owner, workflows[w].i, w)
             /\ files' = files \cup {workflows[w].i}
             /\ list_txt' = Append(list_txt, workflows[w].i)
             /\ list_exists' = TRUE
             /\ workflows' = [workflows EXCEPT
                                 ![w].i = @ + 1,
                                 ![w].count = @ + 1,
                                 ![w].mine = Append(@, workflows[w].i),
                                 ![w].listed = Append(@, workflows[w].i)]
        ELSE /\ UNCHANGED <<clip_owner, files, list_txt, list_exists>>
             /\ workflows' = [workflows EXCEPT
                                 ![w].i = @ + 1,
                                 ![w].mine = Append(@, workflows[w].i)]
    /\ UNCHANGED video_path
    /\ UNCHANGED notIso

\* After the loop, line 683, and the guard of concatenate_clips, line 696:
\* cleanup when there is nothing to merge, else ffmpeg concatenates.
LeaveLoop(w) ==
    /\ workflows[w].pc = "clip_loop"
    /\ workflows[w].i > workflows[w].n
    /\ workflows' = [workflows EXCEPT ![w].pc =
                        IF NothingToMerge(workflows[w].count, list_exists, list_txt)
                        THEN "cleanup_temp_clips" ELSE "concatenate_clips"]
    /\ UNCHANGED <<video_path, clip_owner>>
    /\ UNCHANGED <<list_exists, list_txt, temp_clips, files>>
    /\ UNCHANGED notIso

\* The ffmpeg concat run of concatenate_clips returns; every path goes on to
\* cleanup_temp_clips.
Concatenate(w) ==
    /\ workflows[w].pc = "concatenate_clips"
    /\ workflows' = [workflows EXCEPT ![w].pc = "cleanup_temp_clips"]
    /\ UNCHANGED <<video_path, clip_owner>>
    /\ UNCHANGED <<list_exists, list_txt, temp_clips, files>>
    /\ UNCHANGED notIso

\* cleanup_temp_clips: every file named in self.temp_clips and list.txt are
\* removed.
CleanupTempClips(w) ==
    /\ workflows[w].pc = "cleanup_temp_clips"
    /\ clip_owner' = {f \in clip_owner : f.clip \notin Range(temp_clips)}
    /\ files' = files \ Range(temp_clips)
    /\ list_exists' = FALSE
    /\ list_txt' = <<>>
    /\ workflows' = [workflows EXCEPT ![w].pc = "done"]
    /\ UNCHANGED <<video_path, temp_clips>>
    /\ UNCHANGED notIso

IsoInit ==
    /\ NormIdle
    /\ HmsIdle
    /\ SettingsIdle
    /\ ClipIdle
    /\ ThreadIdle
    /\ IsoIdle

IsoNext ==
    \E w \in Workflows :
        \/ PressStart(w)
        \/ SelectVideo(w)
        \/ Analyse(w)
        \/ BeginClips(w)
        \/ ClipOne(w)
        \/ LeaveLoop(w)
        \/ Concatenate(w)
        \/ CleanupTempClips(w)

IsoSpec == IsoInit /\ [][IsoNext]_vars

\* The workflow has had its video selected and has not finished.
Running(w) ==
    workflows[w].pc \in {"generate_subtitles_if_needed", "clip_videos", "clip_loop",
                         "concatenate_clips", "cleanup_temp_clips"}

\* The workflow is inside clip_videos, after the reset of lines 624-631.
Clipping(w) ==
    workflows[w].pc \in {"clip_loop", "concatenate_clips", "cleanup_temp_clips"}

\* self.video_path is still what the workflow selected.
KeepsVideo(w) == Running(w) => video_path = workflows[w].video

\* self.temp_clips and list.txt hold what the workflow put there, and the
\* clip files it listed are the ones it wrote.
KeepsClips(w) ==
    Clipping(w) =>
        /\ temp_clips = workflows[w].mine
        /\ list_exists
        /\ list_txt = workflows[w].listed
        /\ \A k \in Range(workflows[w].listed) : [clip |-> k, by |-> w] \in clip_owner

\* C21: while a workflow that has its video selected is running, no other
\* workflow modifies the shared fields it relies on: self.video_path is the
\* video it selected, and from the start of its clip loop self.temp_clips,
\* list.txt and the clip files it listed are as it left them.
C21_WorkflowIsolation ==
    \A w \in Workflows : KeepsVideo(w) /\ KeepsClips(w)


(***************************************************************************)
(* The second sort.  The instance for the claim about the sort of line     *)
(* 593: ranges that start at 0.2 s, 0.4 s (both clamped to 0 by a buffer   *)
(* of 0.5 s) and 3.2 s, 0.1 s or 1 s long, in every order.                 *)
(***************************************************************************)
SortLines == {RangeLine(s, s + d) : s \in {200, 400, 3200}, d \in {100, 1000}}

SortReplies ==
    {Flatten(ls) : ls \in UNION {[1..n -> SortLines] : n \in 0..MaxLines}}
    \cup {<<SrtStamp(200), Dash, SrtStamp(1200)>>}

SortInit == StartOf(SortReplies)

SortSpec == SortInit /\ [][Next]_vars

\* The starts of the list never decrease.
NonDecreasingStarts(rs) ==
    \A i \in 1..(Len(rs) - 1) : RangeKey(rs[i]) <= RangeKey(rs[i + 1])

\* The buffering loop has run.
Buffered == pc \notin {"call_llm", "buffer"} /\ matches # <<>>

\* C22: for a buffer >= 0, the list the buffering loop builds from the matches
\* sorted by raw start is already in non-decreasing order of start, the sort
\* of line 593 returns it unchanged, and the merged and final lists are the
\* ones the pipeline computes from the unsorted list.
C22_SecondSortRedundant ==
    (Buffered /\ buffer_time >= 0) =>
        \A b \in {BufferRanges(matches, buffer_time)} :
            /\ NonDecreasingStarts(b)
            /\ buffered_ranges = b
            /\ Filtered =>
                /\ merged_ranges = MergeRanges(b)
                /\ final_clip_ranges = FilterRanges(MergeRanges(b), min_duration)

\* C22 witness: three matches given in descending order of raw start, so
\* that the first sort reorders them; two of them are clamped to the same
\* buffered start; the merged list has two ranges and clips come out.
C22_Witness ==
    /\ Filtered
    /\ buffer_time > 0
    /\ Len(findall(ai_reply)) = 3
    /\ \A ms \in {findall(ai_reply)} :
           /\ hms_to_sec(ms[1][1]) > hms_to_sec(ms[2][1])
           /\ hms_to_sec(ms[2][1]) > hms_to_sec(ms[3][1])
    /\ Len(buffered_ranges) = 3
    /\ buffered_ranges[1][1] = buffered_ranges[2][1]
    /\ Len(merged_ranges) = 2
    /\ final_clip_ranges # <<>>

=============================================================================
